---- MODULE Spec2Model ----
(***************************************************************************)
(* The Ook bridge: BridgeServer (bridge/src/server.ts) and ProcessManager  *)
(* (bridge/src/process.ts).  One WebSocket peer at a time is bridged to    *)
(* the standard streams of a child process.  Every handler of the two      *)
(* classes is one action; the events of the environment (a connection      *)
(* arriving, a frame from the peer, a line or the exit of a child, a timer *)
(* firing, a shutdown signal) choose which handler runs next, as Node's    *)
(* event loop does.                                                        *)
(***************************************************************************)
EXTENDS Integers, Sequences, FiniteSets, TLC

\* ------------------------------------------------------------------ bounds
\* Connections the environment attempts, in order of arrival: 1..MaxConns.
MaxConns == 2
\* Requests the bridge tracks in total, each with a span of its own.
MaxSpans == 2
\* Calls of stop().
MaxStops == 1
\* Children that one ProcessManager spawns, when it is driven on its own.
MaxChildren == 3
\* SIGTERM signals that one ProcessManager sends, when it is driven on its own.
MaxKills == 2

ConnIds == 1..MaxConns
\* A ProcessManager is named by the connection whose admission constructed it.
PmIds == ConnIds

\* ------------------------------------------------------------ the frames
\* The text frames of the model: what a peer sends and what a child prints.
\* A frame is its text without trailing newlines (body) and the number of
\* newlines that end it (nl).
InBodies ==
    { "{\"id\":1,\"method\":\"initialize\"}",
      "{\"id\":2,\"method\":\"session/prompt\"}",
      "{\"method\":\"session/cancel\"}",
      "not json" }

OutBodies ==
    { "{\"id\":1,\"result\":{}}",
      "{\"id\":1,\"error\":{\"message\":\"no\"}}",
      "{\"id\":2,\"result\":{}}",
      "{\"id\":1,\"method\":\"fs/read_text_file\"}",
      "not json",
      "  " }

Frame(body, nl) == [body |-> body, nl |-> nl]

\* The frames peers send: the JSON frames as ws delivers them, and a frame
\* that is not JSON and ends with a newline.
InFrames == { Frame(b, IF b = "not json" THEN 1 ELSE 0) : b \in InBodies }

\* readline hands over lines without their line terminator.
OutLines == { Frame(b, 0) : b \in OutBodies }


\* JSON.parse of a frame's text, then the fields the handlers read:
\* threw (not JSON), hasId (parsed.id !== undefined), id, method ("" when
\* absent, which is falsy as in JS), error (parsed.error is truthy).
\* Trailing newlines are white space to JSON.parse.
NotParsed == [threw |-> TRUE, hasId |-> FALSE, id |-> 0, method |-> "", error |-> FALSE]
Parsed(hasId, id, method, error) ==
    [threw |-> FALSE, hasId |-> hasId, id |-> id, method |-> method, error |-> error]

JSONParse(frame) ==
    CASE frame.body = "{\"id\":1,\"method\":\"initialize\"}" ->
            Parsed(TRUE, 1, "initialize", FALSE)
      [] frame.body = "{\"id\":2,\"method\":\"session/prompt\"}" ->
            Parsed(TRUE, 2, "session/prompt", FALSE)
      [] frame.body = "{\"method\":\"session/cancel\"}" ->
            Parsed(FALSE, 0, "session/cancel", FALSE)
      [] frame.body = "{\"id\":1,\"result\":{}}" ->
            Parsed(TRUE, 1, "", FALSE)
      [] frame.body = "{\"id\":1,\"error\":{\"message\":\"no\"}}" ->
            Parsed(TRUE, 1, "", TRUE)
      [] frame.body = "{\"id\":2,\"result\":{}}" ->
            Parsed(TRUE, 2, "", FALSE)
      [] frame.body = "{\"id\":1,\"method\":\"fs/read_text_file\"}" ->
            Parsed(TRUE, 1, "fs/read_text_file", FALSE)
      [] OTHER -> NotParsed

\* line.trim() is the empty string
IsBlank(frame) == frame.body = "  " \/ frame.body = ""


\* ------------------------------------------------------------- the state
VARIABLES
    wss,                  \* BridgeServer.wss: "null", "listening", "closing"
    activeConnection,     \* BridgeServer.activeConnection: 0 (null) or a connection
    processManager,       \* BridgeServer.processManager: 0 (null) or a ProcessManager
    pendingRequests,      \* BridgeServer.pendingRequests: the entries, in Map order
    sessionAuthenticated, \* BridgeServer.sessionAuthenticated
    ws,                   \* the WebSocket objects, by connection
    pm,                   \* the ProcessManager objects and their children
    gauge,                \* the sum of the ook.connection.active up-down counter
    spans,                \* the trace spans started, by order of start: their status
    stops,                \* calls of stop() so far
    parentEnv,            \* process.env of two runs of the bridge
    childEnv              \* the env option spawn() gave the child in each run

serverVars == <<wss, activeConnection, processManager, pendingRequests,
                sessionAuthenticated, ws, pm, gauge, spans, stops>>
envVars == <<parentEnv, childEnv>>
vars == <<wss, activeConnection, processManager, pendingRequests,
          sessionAuthenticated, ws, pm, gauge, spans, stops, parentEnv, childEnv>>

\* A WebSocket the server has not seen yet.  handlers tells that the listeners
\* of the bridge are attached and may still run, closeSent that close() was
\* called on the socket while it was open.
NoWs == [readyState |-> "NONE", handlers |-> FALSE, closeSent |-> FALSE]
\* A socket whose close event was emitted: no listener of it runs again.
ClosedWs == [readyState |-> "CLOSED", handlers |-> FALSE, closeSent |-> FALSE]
\* A ProcessManager that was not constructed yet.  process is this.process,
\* exitCode is this.process.exitCode, pipes tells that the child has its three
\* streams, alive that it has not exited, stdoutReader that a reader is open
\* on its stdout, sigterm counts the SIGTERM signals sent, timers the armed
\* kill timers.  The children of one ProcessManager are numbered as they are
\* spawned: gen is the number of the child this.process is (or was last),
\* armed is, per armed timer and in the order they fire, the child kill() was
\* called on, observed is the set of children whose exit event was handled.
NoPm == [created |-> FALSE, process |-> "null", pipes |-> FALSE, exitCode |-> "null",
         alive |-> FALSE, stdoutReader |-> FALSE, sigterm |-> 0, timers |-> 0,
         gen |-> 0, armed |-> << >>, observed |-> {}]
\* What pendingRequests.get(id) gives when there is no entry: undefined.
NoPending == [id |-> 0, method |-> "", span |-> 0, from |-> 0]
NoFrame == Frame("", 0)

\* --------------------------------------------------------------- effects
\* A listener changes the state above and calls its collaborators: sockets,
\* children, timers, instruments, the tracer.  A call is an Effect: op names
\* it, on is the connection, ProcessManager or span it is made on, n and s are
\* its number and string arguments, data the frame it passes.  The calls of a
\* listener, in order, are a sequence of effects.
Effect(op, on, n, s, data) == [op |-> op, on |-> on, n |-> n, s |-> s, data |-> data]
\* ws.close(code, reason) on connection c
EClose(c, code, reason) == Effect("ws.close", c, code, reason, NoFrame)
\* ws.send(data) on connection c, of a line that the child of p printed
ESend(c, p, data) == Effect("ws.send", c, p, "", data)
\* processManager.send(message) on ProcessManager p
EPmSend(p, message) == Effect("pm.send", p, 0, "", message)
\* process.stdin.write(line) to the child of p
EWrite(p, line) == Effect("stdin.write", p, 0, "", line)
\* process.kill(signal) on the child of p
ESignal(p, signal) == Effect("process.kill", p, 0, signal, NoFrame)
\* setTimeout(..., ms) in kill() of p
ETimeout(p, ms) == Effect("setTimeout", p, ms, "", NoFrame)
\* instrument.add(n, {tag}) or instrument.record(n, {tag})
EMetric(instrument, n, tag) == Effect(instrument, 0, n, tag, NoFrame)
\* tracer.startSpan("acp." + method) of span k
ESpanStart(k, method) == Effect("span.start", k, 0, method, NoFrame)
\* span.setStatus(status); span.end() of span k
ESpanEnd(k, status) == Effect("span.end", k, 0, status, NoFrame)
\* wss.close(callback)
EWssClose == Effect("wss.close", 0, 0, "", NoFrame)

\* The effects of a sequence that are calls of op.
Calls(fx, op) == SelectSeq(fx, LAMBDA e : e.op = op)

\* ------------------------------------------------- the child's environment
EnvNames == { "ANTHROPIC_API_KEY", "PATH", "AWS_SECRET_ACCESS_KEY" }
\* The variables the documentation allows the child to see.
AllowList == { "ANTHROPIC_API_KEY" }
\* A variable's value; "undefined" when it is not set.
EnvValues == { "undefined", "a", "b" }
Envs == [EnvNames -> EnvValues]
NoEnv == [n \in EnvNames |-> "undefined"]
\* No child was spawned yet.
NotSpawned == [spawned |-> FALSE, env |-> NoEnv]
\* The environment the server model runs in.
BridgeEnv == [n \in EnvNames |-> "a"]

\* env: { ...process.env, ANTHROPIC_API_KEY: process.env.ANTHROPIC_API_KEY }
SpawnEnv(env) ==
    [n \in EnvNames |-> IF n = "ANTHROPIC_API_KEY" THEN env["ANTHROPIC_API_KEY"]
                        ELSE env[n]]

\* ------------------------------------------------------------------ Init
Init ==
    /\ wss = "null"
    /\ activeConnection = 0
    /\ processManager = 0
    /\ pendingRequests = << >>
    /\ sessionAuthenticated = FALSE
    /\ ws = [c \in ConnIds |-> NoWs]
    /\ pm = [p \in PmIds |-> NoPm]
    /\ gauge = 0
    /\ spans = << >>
    /\ stops = 0
    /\ parentEnv = <<BridgeEnv, BridgeEnv>>
    /\ childEnv = <<NotSpawned, NotSpawned>>

\* ------------------------------------------------------- ProcessManager
\* get isRunning(), of an object of pms
running(pms, p) == pms[p].process # "null" /\ pms[p].exitCode = "null"
isRunning(p) == running(pm, p)

\* The delay of the kill timer, in ms.
KillTimeoutMs == 5000

\* kill(): SIGTERM now, and a timer that sends SIGKILL after 5000 ms.
\* The ProcessManager objects after p.kill(), and the calls it makes.
kill(pms, p) ==
    IF pms[p].process # "null"
    THEN [pms EXCEPT ![p].sigterm = @ + 1, ![p].timers = @ + 1,
                     ![p].armed = Append(@, pms[p].gen)]
    ELSE pms
killEffects(pms, p) ==
    IF pms[p].process # "null"
    THEN <<ESignal(p, "SIGTERM"), ETimeout(p, KillTimeoutMs)>>
    ELSE << >>

\* The callback of that timer: SIGKILL if the child is still there.
timerEffects(p) ==
    IF pm[p].process # "null" /\ pm[p].exitCode = "null"
    THEN <<ESignal(p, "SIGKILL")>> ELSE << >>

\* A cleanup() that closes the reader and keeps the child as this.process.
cleanupKeepsChild(pms, p) == [pms EXCEPT ![p].stdoutReader = FALSE]

\* cleanup(): close the reader, drop the child.
cleanup(pms, p) ==
    [pms EXCEPT ![p].stdoutReader = FALSE, ![p].process = "null", ![p].exitCode = "null"]

\* send(message) returns false without writing when there is no running child
\* (a child whose pipes were established always has a stdin).
CanSend(p) == isRunning(p) /\ pm[p].pipes

\* A line that always gets a newline appended.
LineAlwaysAppends(message) == Frame(message.body, message.nl + 1)

\* const line = message.endsWith("\n") ? message : message + "\n"
Line(message) == IF message.nl > 0 THEN message ELSE Frame(message.body, message.nl + 1)

\* What spawn() finds: the child runs with its pipes ("ok"), it has no pipes
\* ("nopipes": spawn() emits error itself and attaches no listener), or it
\* could not be started ("failed": Node sets its exitCode, a negative errno,
\* and emits error, not exit, on the tick that follows spawn(), before any
\* other event is handled).
SpawnOutcomes == { "ok", "nopipes", "failed" }

\* A spawn() that does not look whether a child is running.
spawnAlways(pms, p, outcome) ==
    [pms EXCEPT ![p].created = TRUE,
                ![p].process = "child",
                ![p].pipes = (outcome # "nopipes"),
                ![p].exitCode = IF outcome = "failed" THEN "set" ELSE "null",
                ![p].alive = (outcome # "failed"),
                ![p].stdoutReader = (outcome # "nopipes"),
                ![p].gen = @ + 1]

\* ProcessManager.spawn() of ProcessManager p, and that tick: nothing if a
\* child is running, a new child as this.process otherwise.
spawn(pms, p, outcome) ==
    IF running(pms, p) THEN pms
    ELSE [pms EXCEPT ![p].created = TRUE,
                     ![p].process = "child",
                     ![p].pipes = (outcome # "nopipes"),
                     ![p].exitCode = IF outcome = "failed" THEN "set" ELSE "null",
                     ![p].alive = (outcome # "failed"),
                     ![p].stdoutReader = (outcome # "nopipes"),
                     ![p].gen = @ + 1]

\* -------------------------------------------------------------- WebSocket
\* ws.close(code, reason) of the ws library: an open socket sends its close
\* frame and waits for the peer's; a closing or closed one is left as it is.
WsClose(sockets, c) ==
    IF sockets[c].readyState = "OPEN"
    THEN [sockets EXCEPT ![c].readyState = "CLOSING", ![c].closeSent = TRUE]
    ELSE sockets

\* The connection the next "connection" event brings.
NextConn == CHOOSE c \in ConnIds :
                /\ ws[c].readyState = "NONE"
                /\ \A d \in ConnIds : d < c => ws[d].readyState # "NONE"

\* ------------------------------------------------- the pendingRequests Map
\* A Map keeps its entries in the order their keys were first set.
\* An entry: its key, the method and the span of the PendingRequest, and the
\* connection whose frame made it.
Entry(id, method, span, from) == [id |-> id, method |-> method, span |-> span, from |-> from]

MapHas(map, id) == \E k \in 1..Len(map) : map[k].id = id
MapGet(map, id) ==
    IF MapHas(map, id) THEN map[CHOOSE k \in 1..Len(map) : map[k].id = id]
    ELSE NoPending
\* set() of a key that is there replaces the value and keeps the position.
MapSet(map, entry) ==
    IF MapHas(map, entry.id)
    THEN [k \in 1..Len(map) |-> IF map[k].id = entry.id THEN entry ELSE map[k]]
    ELSE Append(map, entry)
\* A delete that removes nothing.
MapDeleteNothing(map, id) == map
MapDelete(map, id) == SelectSeq(map, LAMBDA e : e.id # id)

\* ---------------------------------------------------------- BridgeServer
\* start(): create the WebSocketServer and register the connection handler.
Start ==
    /\ wss = "null"
    /\ stops = 0
    /\ wss' = "listening"
    /\ UNCHANGED <<activeConnection, processManager, pendingRequests,
                   sessionAuthenticated, ws, pm, gauge, spans, stops, envVars>>

\* The test of the single-user rule:
\* this.activeConnection && this.activeConnection.readyState === WebSocket.OPEN
Busy == activeConnection # 0 /\ ws[activeConnection].readyState = "OPEN"

\* An error listener that leaves the peer connected.
onProcessErrorKeepsPeer(sockets, active) == sockets

\* The error listener of a ProcessManager: count, then close the active peer.
onProcessError(sockets, active) ==
    IF active # 0 THEN WsClose(sockets, active) ELSE sockets
\* The calls of an error listener that closes with the reason of the exit
\* listener.
processErrorEffectsAsExit(active) ==
    <<EMetric("ook.error.count", 1, "process")>>
    \o (IF active # 0 THEN <<EClose(active, 1011, "Process exited")>> ELSE << >>)
processErrorEffects(active) ==
    <<EMetric("ook.error.count", 1, "process")>>
    \o (IF active # 0 THEN <<EClose(active, 1011, "Process error")>> ELSE << >>)

\* ensureProcess() with the session resume of its commented-out lines: an
\* authenticated session whose process runs keeps that process.
ensureProcessResume(c, outcome, sockets) ==
    IF sessionAuthenticated /\ processManager # 0 /\ isRunning(processManager)
    THEN [processManager |-> processManager, pm |-> pm, ws |-> sockets]
    ELSE [processManager |-> c,
          pm |-> spawn(IF processManager # 0 /\ isRunning(processManager)
                       THEN kill(pm, processManager) ELSE pm,
                       c, outcome),
          ws |-> IF outcome = "ok" THEN sockets ELSE onProcessError(sockets, c)]

\* ensureProcess(), called while admitting connection c: kill the process
\* that is there if it runs, construct a ProcessManager, wire its listeners
\* and spawn.  What it leaves: this.processManager, the ProcessManager
\* objects, and the sockets (an error of the spawn closes the connection).
ensureProcess(c, outcome, sockets) ==
    [processManager |-> c,
     pm |-> spawn(IF processManager # 0 /\ isRunning(processManager)
                  THEN kill(pm, processManager) ELSE pm,
                  c, outcome),
     ws |-> IF outcome = "ok" THEN sockets ELSE onProcessError(sockets, c)]
ensureProcessEffects(c, outcome) ==
    (IF processManager # 0 /\ isRunning(processManager)
     THEN killEffects(pm, processManager) ELSE << >>)
    \o (IF outcome = "ok" THEN << >> ELSE processErrorEffects(c))

\* The calls of the connection handler for connection c.
connectionEffects(c, outcome) ==
    IF Busy
    THEN <<EClose(c, 1013, "Server busy - single user mode")>>
    ELSE <<EMetric("ook.connection.active", 1, "")>> \o ensureProcessEffects(c, outcome)

\* A socket as the connection event hands it over.
OpenWs == [readyState |-> "OPEN", handlers |-> FALSE, closeSent |-> FALSE]

\* A rejection that displaces the active connection: the new socket is closed
\* and yet taken as the peer handle.
RejectDisplacing(c) ==
    /\ ws' = WsClose([ws EXCEPT ![c] = OpenWs], c)
    /\ activeConnection' = c
    /\ UNCHANGED <<processManager, pm, gauge>>

\* The connection handler when the server is busy: close the new socket and
\* return, before any listener is attached to it.
Reject(c) ==
    /\ ws' = WsClose([ws EXCEPT ![c] = OpenWs], c)
    /\ UNCHANGED <<activeConnection, processManager, pm, gauge>>

\* The connection handler when it is not: take the socket as the active
\* connection, count it, ensure the process, attach the listeners.
Admit(c, outcome) ==
    LET ensured == ensureProcess(c, outcome, [ws EXCEPT ![c] = OpenWs]) IN
    /\ activeConnection' = c
    /\ gauge' = gauge + 1
    /\ processManager' = ensured.processManager
    /\ pm' = ensured.pm
    /\ ws' = [ensured.ws EXCEPT ![c].handlers = TRUE]

\* The connection handler, for the connection that arrives next.
Connect(outcome) ==
    /\ wss = "listening"
    /\ \E c \in ConnIds : ws[c].readyState = "NONE"
    /\ IF Busy THEN Reject(NextConn) ELSE Admit(NextConn, outcome)
    /\ UNCHANGED <<wss, pendingRequests, sessionAuthenticated, spans, stops, envVars>>

\* A request test that does not look at the id.
IsRequestWithoutId(parsed) == ~parsed.threw /\ parsed.method # ""

\* parsed.id !== undefined && parsed.method
IsRequest(parsed) == ~parsed.threw /\ parsed.hasId /\ parsed.method # ""

\* this.processManager?.send(message) writes to the child
Writes == processManager # 0 /\ CanSend(processManager)

\* ProcessManager.send(message): the write it makes on the child's stdin, and
\* what it returns.  accepted is what stdin.write() returns: false when the
\* pipe's buffer is over its high-water mark, the line being written all the
\* same.
sendEffects(p, message) ==
    IF CanSend(p) THEN <<EWrite(p, Line(message))>> ELSE << >>
sendReturns(p, accepted) == CanSend(p) /\ accepted

\* The calls of handleIncomingMessage(data).
incomingEffects(data, accepted) ==
    <<EMetric("ook.messages.in", 1, "")>>
    \o (IF IsRequest(JSONParse(data))
        THEN <<ESpanStart(Len(spans) + 1, JSONParse(data).method),
               EMetric("ook.request.count", 1, JSONParse(data).method)>>
        ELSE << >>)
    \o (IF processManager # 0
        THEN <<EPmSend(processManager, data)>> \o sendEffects(processManager, data)
        ELSE << >>)
    \o (IF processManager # 0 /\ sendReturns(processManager, accepted) THEN << >>
        ELSE <<EMetric("ook.error.count", 1, "send_failed")>>)

\* handleIncomingMessage(data), for a frame that arrived on connection c.
handleIncomingMessage(c, data) ==
    LET parsed == JSONParse(data) IN
    /\ IF IsRequest(parsed)
       THEN /\ spans' = Append(spans, "open")
            /\ pendingRequests' =
                 MapSet(pendingRequests, Entry(parsed.id, parsed.method, Len(spans) + 1, c))
       ELSE UNCHANGED <<spans, pendingRequests>>
    /\ UNCHANGED <<wss, activeConnection, processManager, sessionAuthenticated,
                   ws, pm, gauge, stops, envVars>>

\* The message listener of connection c can run: the socket is open, or the
\* server has sent its close frame and the peer has not answered yet.
Receiving(c) ==
    /\ ws[c].handlers
    /\ \/ ws[c].readyState = "OPEN"
       \/ ws[c].readyState = "CLOSING" /\ ws[c].closeSent

\* A frame from the peer of connection c.
PeerMessage(c, data) ==
    /\ Receiving(c)
    /\ IsRequest(JSONParse(data)) => Len(spans) < MaxSpans
    /\ handleIncomingMessage(c, data)

\* The calls of the close listener.
closeEffects ==
    <<EMetric("ook.connection.active", -1, "")>>
    \o (IF processManager # 0 THEN killEffects(pm, processManager) ELSE << >>)

\* The close listener with session resume: only the process of a session
\* that is not authenticated is killed, as with the first branch alone.
onCloseResume ==
    /\ gauge' = gauge - 1
    /\ activeConnection' = 0
    /\ pm' = IF ~sessionAuthenticated /\ processManager # 0
             THEN kill(pm, processManager) ELSE pm
    /\ processManager' = IF sessionAuthenticated THEN processManager ELSE 0
    /\ sessionAuthenticated' = FALSE

\* The close listener of an admitted connection.  Whatever sessionAuthenticated
\* is, one of the two branches kills the process that is there.
onClose ==
    /\ gauge' = gauge - 1
    /\ activeConnection' = 0
    /\ pm' = IF processManager # 0 THEN kill(pm, processManager) ELSE pm
    /\ processManager' = 0
    /\ sessionAuthenticated' = FALSE

\* The peer of connection c starts the closing handshake: ws answers its
\* close frame and the socket is CLOSING until the TCP connection ends.
PeerClosing(c) ==
    /\ ws[c].readyState = "OPEN"
    /\ ws' = [ws EXCEPT ![c].readyState = "CLOSING"]
    /\ UNCHANGED <<wss, activeConnection, processManager, pendingRequests,
                   sessionAuthenticated, pm, gauge, spans, stops, envVars>>

\* The close event of connection c: the socket is CLOSED, and the close
\* listener runs if the connection was admitted.
CloseEvent(c) ==
    /\ ws[c].readyState \in { "OPEN", "CLOSING" }
    /\ ws' = [ws EXCEPT ![c] = ClosedWs]
    /\ IF ws[c].handlers THEN onClose
       ELSE UNCHANGED <<gauge, activeConnection, pm, processManager, sessionAuthenticated>>
    /\ UNCHANGED <<wss, pendingRequests, spans, stops, envVars>>

\* The calls of the error listener of a connection.
wsErrorEffects == <<EMetric("ook.error.count", 1, "websocket")>>

\* The error event of connection c: its listener counts the error.
WsError(c) ==
    /\ ws[c].handlers
    /\ ws[c].readyState \in { "OPEN", "CLOSING" }
    /\ UNCHANGED vars

\* parsed.id !== undefined, and pendingRequests holds an entry for that id
Resolves(parsed) == ~parsed.threw /\ parsed.hasId /\ MapHas(pendingRequests, parsed.id)

\* An authentication that does not look at the method.
AuthenticatesAnyMethod(parsed, pending) == ~parsed.error /\ ~sessionAuthenticated

\* pending.method === "initialize" && !this.sessionAuthenticated, in the
\* branch of a response without error
Authenticates(parsed, pending) ==
    ~parsed.error /\ pending.method = "initialize" /\ ~sessionAuthenticated

\* this.activeConnection?.readyState === WebSocket.OPEN
Forwards == activeConnection # 0 /\ ws[activeConnection].readyState = "OPEN"

\* The calls of handleOutgoingMessage(data) for a line of the child of p.
\* The latency is a difference of two clock readings, which the model does
\* not hold: the sample is recorded as 0.
outgoingEffects(p, data) ==
    LET parsed == JSONParse(data)
        pending == MapGet(pendingRequests, parsed.id)
    IN  <<EMetric("ook.messages.out", 1, "")>>
        \o (IF Resolves(parsed)
            THEN <<EMetric("ook.request.latency", 0, pending.method)>>
                 \o (IF parsed.error
                     THEN <<ESpanEnd(pending.span, "ERROR"),
                            EMetric("ook.error.count", 1, "rpc_error")>>
                     ELSE <<ESpanEnd(pending.span, "OK")>>)
            ELSE << >>)
        \o (IF Forwards THEN <<ESend(activeConnection, p, data)>> ELSE << >>)

\* handleOutgoingMessage(data)
handleOutgoingMessage(data) ==
    LET parsed == JSONParse(data)
        pending == MapGet(pendingRequests, parsed.id)
    IN  /\ IF Resolves(parsed)
           THEN /\ spans' = [spans EXCEPT ![pending.span] =
                                IF parsed.error THEN "ERROR" ELSE "OK"]
                /\ sessionAuthenticated' =
                     (sessionAuthenticated \/ Authenticates(parsed, pending))
                /\ pendingRequests' = MapDelete(pendingRequests, parsed.id)
           ELSE UNCHANGED <<spans, sessionAuthenticated, pendingRequests>>
        /\ UNCHANGED <<wss, activeConnection, processManager, ws, pm, gauge,
                       stops, envVars>>

\* The child of p can print a line that its ProcessManager reads: it has not
\* exited and the reader on its stdout is open.
Printing(p) == pm[p].alive /\ pm[p].stdoutReader

\* A line on the stdout of the child of p: the reader drops a blank line and
\* emits message for any other, which the listener wired in ensureProcess
\* hands to handleOutgoingMessage.
ChildLine(p, line) ==
    /\ Printing(p)
    /\ IF IsBlank(line) THEN UNCHANGED vars ELSE handleOutgoingMessage(line)

\* The calls of the exit listener of a ProcessManager.
exitEffects ==
    [k \in 1..Len(pendingRequests) |-> ESpanEnd(pendingRequests[k].span, "ERROR")]
    \o (IF Forwards THEN <<EClose(activeConnection, 1011, "Process exited")>> ELSE << >>)

\* An exit listener that ends the spans and forgets to clear the Map.
onProcessExitKeepsPending ==
    /\ spans' = [k \in 1..Len(spans) |->
                    IF \E j \in 1..Len(pendingRequests) : pendingRequests[j].span = k
                    THEN "ERROR" ELSE spans[k]]
    /\ pendingRequests' = pendingRequests
    /\ ws' = IF Forwards THEN WsClose(ws, activeConnection) ELSE ws

\* The exit listener of a ProcessManager: fail every pending request, clear
\* the Map, close the active connection if it is open.
onProcessExit ==
    /\ spans' = [k \in 1..Len(spans) |->
                    IF \E j \in 1..Len(pendingRequests) : pendingRequests[j].span = k
                    THEN "ERROR" ELSE spans[k]]
    /\ pendingRequests' = << >>
    /\ ws' = IF Forwards THEN WsClose(ws, activeConnection) ELSE ws

\* stdoutReader.close() of ProcessManager p
EReaderClose(p) == Effect("reader.close", p, 0, "", NoFrame)
\* this.emit(event, ...) of ProcessManager p
EEmit(p, event) == Effect("emit", p, 0, event, NoFrame)

\* The calls of the exit listener that spawn() attaches to the child of p:
\* cleanup(), then emit.
childExitEffects(p) ==
    (IF pm[p].stdoutReader THEN <<EReaderClose(p)>> ELSE << >>)
    \o <<EEmit(p, "exit")>>

\* The child of p exits.  With its listeners attached, the ProcessManager
\* cleans up and emits exit.  A child without pipes has no listener: Node
\* sets its exitCode, or its signalCode when a signal ended it.
ChildExit(p, bySignal) ==
    /\ pm[p].alive
    /\ IF pm[p].pipes
       THEN /\ pm' = [cleanup(pm, p) EXCEPT ![p].alive = FALSE,
                                             ![p].observed = @ \cup {pm[p].gen}]
            /\ onProcessExit
       ELSE /\ pm' = [pm EXCEPT ![p].alive = FALSE,
                                ![p].exitCode = IF bySignal THEN "null" ELSE "set"]
            /\ UNCHANGED <<spans, pendingRequests, ws>>
    /\ UNCHANGED <<wss, activeConnection, processManager, sessionAuthenticated,
                   gauge, stops, envVars>>

\* A kill timer of p fires, 5000 ms after kill().
KillTimer(p) ==
    /\ pm[p].timers > 0
    /\ pm' = [pm EXCEPT ![p].timers = @ - 1, ![p].armed = Tail(@)]
    /\ UNCHANGED <<wss, activeConnection, processManager, pendingRequests,
                   sessionAuthenticated, ws, gauge, spans, stops, envVars>>

\* The calls of stop().
stopEffects ==
    (IF activeConnection # 0
     THEN <<EClose(activeConnection, 1001, "Server shutting down")>> ELSE << >>)
    \o (IF processManager # 0 THEN killEffects(pm, processManager) ELSE << >>)
    \o (IF wss # "null" THEN <<EWssClose>> ELSE << >>)

\* stop(), up to its await: close the active connection, kill the process,
\* ask the WebSocketServer to close.
Stop ==
    /\ stops < MaxStops
    /\ wss # "null" \/ stops > 0
    /\ stops' = stops + 1
    /\ ws' = IF activeConnection # 0 THEN WsClose(ws, activeConnection) ELSE ws
    /\ activeConnection' = 0
    /\ pm' = IF processManager # 0 THEN kill(pm, processManager) ELSE pm
    /\ processManager' = 0
    /\ wss' = IF wss # "null" THEN "closing" ELSE wss
    /\ UNCHANGED <<pendingRequests, sessionAuthenticated, gauge, spans, envVars>>

\* stop(), after its await: the WebSocketServer has closed, which it does
\* when no connection is left.
StopDone ==
    /\ wss = "closing"
    /\ \A c \in ConnIds : ws[c].readyState \notin { "OPEN", "CLOSING" }
    /\ wss' = "null"
    /\ UNCHANGED <<activeConnection, processManager, pendingRequests,
                   sessionAuthenticated, ws, pm, gauge, spans, stops, envVars>>

\* ------------------------------------------------------------------ Next
Next ==
    \/ Start
    \/ \E outcome \in SpawnOutcomes : Connect(outcome)
    \/ \E c \in ConnIds, data \in InFrames : PeerMessage(c, data)
    \/ \E c \in ConnIds : PeerClosing(c)
    \/ \E c \in ConnIds : CloseEvent(c)
    \/ \E c \in ConnIds : WsError(c)
    \/ \E p \in PmIds, line \in OutLines : ChildLine(p, line)
    \/ \E p \in PmIds, bySignal \in BOOLEAN : ChildExit(p, bySignal)
    \/ \E p \in PmIds : KillTimer(p)
    \/ Stop
    \/ StopDone

Spec == Init /\ [][Next]_vars

\* ------------------------------------------- the environment of the child
\* Two runs of the bridge, each in an environment of its own, each spawning
\* its child once.
EnvInit ==
    /\ wss = "null"
    /\ activeConnection = 0
    /\ processManager = 0
    /\ pendingRequests = << >>
    /\ sessionAuthenticated = FALSE
    /\ ws = [c \in ConnIds |-> NoWs]
    /\ pm = [p \in PmIds |-> NoPm]
    /\ gauge = 0
    /\ spans = << >>
    /\ stops = 0
    /\ parentEnv \in Envs \X Envs
    /\ childEnv = <<NotSpawned, NotSpawned>>

\* spawn() in run r: the env option it builds from process.env.
SpawnChild(r) ==
    /\ ~childEnv[r].spawned
    /\ childEnv' = [childEnv EXCEPT ![r] = [spawned |-> TRUE, env |-> SpawnEnv(parentEnv[r])]]
    /\ UNCHANGED <<serverVars, parentEnv>>

EnvNext == \E r \in 1..2 : SpawnChild(r)

EnvSpec == EnvInit /\ [][EnvNext]_vars

\* ------------------------------------------- a ProcessManager on its own
\* One ProcessManager, constructed and idle, whose spawn() and kill() are
\* called in any order by its owner, while its child exits and its timers
\* fire when they will.  There is no server: the listeners of ensureProcess
\* find no connection and no pending request.
TheController == 1

PmInit ==
    /\ wss = "null"
    /\ activeConnection = 0
    /\ processManager = 0
    /\ pendingRequests = << >>
    /\ sessionAuthenticated = FALSE
    /\ ws = [c \in ConnIds |-> NoWs]
    /\ pm = [p \in PmIds |-> IF p = TheController
                             THEN [NoPm EXCEPT !.created = TRUE] ELSE NoPm]
    /\ gauge = 0
    /\ spans = << >>
    /\ stops = 0
    /\ parentEnv = <<BridgeEnv, BridgeEnv>>
    /\ childEnv = <<NotSpawned, NotSpawned>>

\* spawn() is called.
PmSpawn(outcome) ==
    /\ pm[TheController].gen < MaxChildren
    /\ pm' = spawn(pm, TheController, outcome)
    /\ UNCHANGED <<wss, activeConnection, processManager, pendingRequests,
                   sessionAuthenticated, ws, gauge, spans, stops, envVars>>

\* kill() is called.
PmKill ==
    /\ pm[TheController].sigterm < MaxKills
    /\ pm' = kill(pm, TheController)
    /\ UNCHANGED <<wss, activeConnection, processManager, pendingRequests,
                   sessionAuthenticated, ws, gauge, spans, stops, envVars>>

PmNext ==
    \/ \E outcome \in SpawnOutcomes : PmSpawn(outcome)
    \/ PmKill
    \/ \E bySignal \in BOOLEAN : ChildExit(TheController, bySignal)
    \/ KillTimer(TheController)

PmSpec == PmInit /\ [][PmNext]_vars

\* ============================================================ properties
\* A connection that was admitted and whose close event has not been emitted:
\* its message and close listeners can still run.
Live(c) == ws[c].handlers /\ ws[c].readyState \in { "OPEN", "CLOSING" }

\* The listeners of a ProcessManager were attached: its child had its pipes.
Listening(p) == pm[p].created /\ pm[p].pipes

\* C1: at any time at most one connection is admitted, that is, has its
\* message and close listeners live and is not yet closed; a connection that
\* arrives while an admitted one has not finished closing is not admitted
\* alongside it.
C1_AtMostOneAdmitted == Cardinality({ c \in ConnIds : Live(c) }) <= 1

\* C2: a connection that arrives while the active connection is open is closed
\* with code 1013 and reason "Server busy - single user mode", which is the
\* handler's only call; the peer handle, the process handle, the processes,
\* the pending requests, the authenticated flag, the gauge and every other
\* socket are left as they were, and the rejected socket has no listener.
C2_RejectionOnlyClosesNewcomer ==
    /\ [](\A c \in ConnIds, outcome \in SpawnOutcomes :
            (Busy /\ wss = "listening" /\ ws[c].readyState = "NONE" /\ c = NextConn)
            => connectionEffects(c, outcome)
                 = <<EClose(c, 1013, "Server busy - single user mode")>>)
    /\ [][\A c \in ConnIds :
            (Busy /\ ws[c].readyState = "NONE" /\ ws'[c].readyState # "NONE")
            => /\ ws'[c] = [readyState |-> "CLOSING", handlers |-> FALSE,
                            closeSent |-> TRUE]
               /\ \A d \in ConnIds \ {c} : ws'[d] = ws[d]
               /\ activeConnection' = activeConnection
               /\ processManager' = processManager
               /\ pm' = pm
               /\ pendingRequests' = pendingRequests
               /\ sessionAuthenticated' = sessionAuthenticated
               /\ gauge' = gauge
               /\ spans' = spans]_vars
\* A second connection was rejected while the first is open and served.
C2_Witness ==
    \E c \in ConnIds :
        /\ ws[c] = [readyState |-> "CLOSING", handlers |-> FALSE, closeSent |-> TRUE]
        /\ activeConnection # 0 /\ activeConnection # c
        /\ ws[activeConnection].readyState = "OPEN"
        /\ processManager = activeConnection
        /\ isRunning(processManager)
        /\ gauge = 1

C4_LinesStayInTheirSession ==
    \A p \in PmIds, line \in OutLines :
        (Printing(p) /\ ~IsBlank(line))
        => \A k \in 1..Len(outgoingEffects(p, line)) :
              outgoingEffects(p, line)[k].op = "ws.send"
              => outgoingEffects(p, line)[k].on = p

\* C5: the keys of the pending requests are distinct; a line of a child whose
\* id has a pending request of method M records one latency sample, tagged M,
\* and removes that entry and no other; a line whose id has no pending request
\* records no sample and removes nothing, which is the case of a second line
\* with the id of a request just resolved.
C5_ResolvedExactlyOnce ==
    /\ [](/\ \A j, k \in 1..Len(pendingRequests) :
                pendingRequests[j].id = pendingRequests[k].id => j = k
          /\ \A p \in PmIds, line \in OutLines :
                (Printing(p) /\ ~IsBlank(line))
                => Calls(outgoingEffects(p, line), "ook.request.latency")
                     = IF Resolves(JSONParse(line))
                       THEN <<EMetric("ook.request.latency", 0,
                                      MapGet(pendingRequests, JSONParse(line).id).method)>>
                       ELSE << >>)
    /\ [][\A p \in PmIds, line \in OutLines :
            (ChildLine(p, line) /\ ~IsBlank(line))
            => IF JSONParse(line).hasId /\ MapHas(pendingRequests, JSONParse(line).id)
               THEN /\ Len(pendingRequests') = Len(pendingRequests) - 1
                    /\ ~MapHas(pendingRequests', JSONParse(line).id)
                    /\ \A k \in 1..Len(pendingRequests) :
                          pendingRequests[k].id # JSONParse(line).id
                          => MapGet(pendingRequests', pendingRequests[k].id)
                               = pendingRequests[k]
                    /\ spans'[MapGet(pendingRequests, JSONParse(line).id).span] # "open"
               ELSE pendingRequests' = pendingRequests /\ spans' = spans]_vars
\* One of two tracked requests was resolved; the other is still pending.
C5_Witness ==
    /\ Len(spans) = 2
    /\ spans[1] = "OK" /\ spans[2] = "open"
    /\ Len(pendingRequests) = 1
    /\ pendingRequests[1].id = 2 /\ pendingRequests[1].span = 2
    /\ \E p \in PmIds : Printing(p)

\* C6: when a ProcessManager emits exit while N requests are pending, the
\* exit listener ends the N spans of those requests with error status, and
\* ends no other span; the pending requests become empty; the active
\* connection, if it is open, is closed with code 1011 and reason "Process
\* exited", and no socket is closed otherwise.
C6_ExitFailsEveryPendingRequest ==
    /\ [](/\ Calls(exitEffects, "span.end")
               = [k \in 1..Len(pendingRequests) |->
                     ESpanEnd(pendingRequests[k].span, "ERROR")]
          /\ Calls(exitEffects, "ws.close")
               = IF activeConnection # 0 /\ ws[activeConnection].readyState = "OPEN"
                 THEN <<EClose(activeConnection, 1011, "Process exited")>>
                 ELSE << >>)
    /\ [][\A p \in PmIds, bySignal \in BOOLEAN :
            (ChildExit(p, bySignal) /\ Listening(p))
            => /\ pendingRequests' = << >>
               /\ Cardinality({ k \in 1..Len(spans) : spans'[k] # spans[k] })
                    = Len(pendingRequests)
               /\ \A k \in 1..Len(spans) :
                     spans'[k] # spans[k] => spans[k] = "open" /\ spans'[k] = "ERROR"
               /\ Len(spans') = Len(spans)
               /\ \A c \in ConnIds :
                     IF c = activeConnection /\ ws[c].readyState = "OPEN"
                     THEN ws'[c] = [ws[c] EXCEPT !.readyState = "CLOSING",
                                                 !.closeSent = TRUE]
                     ELSE ws'[c] = ws[c]]_vars
\* A child exited with two requests pending and its peer connected: both
\* spans ended in error, nothing is pending, the connection is being closed.
C6_Witness ==
    \E p \in PmIds :
        /\ Listening(p) /\ ~pm[p].alive /\ pm[p].process = "null" /\ pm[p].sigterm = 0
        /\ activeConnection = p
        /\ ws[p] = [readyState |-> "CLOSING", handlers |-> TRUE, closeSent |-> TRUE]
        /\ spans = <<"ERROR", "ERROR">>
        /\ pendingRequests = << >>

\* C7: the authenticated flag becomes true only in handleOutgoingMessage of a
\* line without error payload whose id has a pending request of method
\* "initialize"; a line that resolves another method, or carries an error,
\* leaves the flag as it is; and the flag becomes false again only in a step
\* that clears the peer handle and the process handle, that is, ends the
\* Session, so that it becomes true at most once per Session.
C7_AuthenticatedOnlyByHandshake ==
    /\ [][(~sessionAuthenticated /\ sessionAuthenticated')
            => \E p \in PmIds, line \in OutLines :
                  /\ ChildLine(p, line) /\ ~IsBlank(line)
                  /\ ~JSONParse(line).threw /\ JSONParse(line).hasId
                  /\ ~JSONParse(line).error
                  /\ MapHas(pendingRequests, JSONParse(line).id)
                  /\ MapGet(pendingRequests, JSONParse(line).id).method = "initialize"]_vars
    /\ [][\A p \in PmIds, line \in OutLines :
            (/\ ChildLine(p, line) /\ ~IsBlank(line)
             /\ \/ JSONParse(line).error
                \/ MapGet(pendingRequests, JSONParse(line).id).method # "initialize")
            => sessionAuthenticated' = sessionAuthenticated]_vars
    /\ [][(sessionAuthenticated /\ ~sessionAuthenticated')
            => activeConnection' = 0 /\ processManager' = 0]_vars
\* The handshake of the connected peer was answered without error.
C7_Witness ==
    /\ sessionAuthenticated
    /\ activeConnection # 0 /\ ws[activeConnection].readyState = "OPEN"
    /\ processManager = activeConnection /\ isRunning(processManager)
    /\ spans = <<"OK">>
    /\ pendingRequests = << >>

\* C8: the authenticated flag is false whenever no peer is connected, and so
\* is false when a peer is admitted: it is false from the admission of a peer
\* until a handshake of that peer is answered without error.
C8_UnauthenticatedWithoutPeer == activeConnection = 0 => ~sessionAuthenticated

\* C9: the close event of the active connection decrements the gauge by one,
\* clears the peer handle and the process handle, and resets the authenticated
\* flag; the process that was the handle, which is the process of that
\* connection, is asked to terminate whether the flag was true or false: if it
\* has a child, the child is sent SIGTERM once and one kill timer of 5000 ms
\* is armed, and no other process is touched.
C9_CloseEndsTheSession ==
    /\ [](activeConnection # 0 => processManager = activeConnection)
    /\ [](processManager # 0
            => Calls(closeEffects, "process.kill") \o Calls(closeEffects, "setTimeout")
                 = IF pm[processManager].process # "null"
                   THEN <<ESignal(processManager, "SIGTERM"),
                          ETimeout(processManager, 5000)>>
                   ELSE << >>)
    /\ [][\A c \in ConnIds :
            (c = activeConnection /\ CloseEvent(c))
            => /\ gauge' = gauge - 1
               /\ activeConnection' = 0
               /\ processManager' = 0
               /\ sessionAuthenticated' = FALSE
               /\ pm'[c].sigterm = pm[c].sigterm + (IF pm[c].process # "null" THEN 1 ELSE 0)
               /\ pm'[c].timers = pm[c].timers + (IF pm[c].process # "null" THEN 1 ELSE 0)
               /\ \A p \in PmIds \ {c} : pm'[p] = pm[p]]_vars
\* An authenticated peer closed: its process, still alive, was sent SIGTERM,
\* both handles are cleared, the gauge is back to 0, the flag is false.
C9_Witness ==
    \E c \in ConnIds :
        /\ ws[c].readyState = "CLOSED"
        /\ Listening(c) /\ pm[c].alive /\ pm[c].sigterm = 1 /\ pm[c].timers = 1
        /\ activeConnection = 0 /\ processManager = 0
        /\ gauge = 0
        /\ ~sessionAuthenticated
        /\ spans = <<"OK">>
        /\ stops = 0
        /\ \A d \in ConnIds \ {c} : ws[d].readyState = "NONE"

\* C10: the environment given to the child depends only on the allow-listed
\* variables of the parent's environment: two runs whose environments agree
\* on ANTHROPIC_API_KEY give their children the same environment, and a
\* variable that is not allow-listed is not set in the child's environment.
C10_ChildEnvOnlyAllowListed ==
    /\ (/\ childEnv[1].spawned /\ childEnv[2].spawned
        /\ \A n \in AllowList : parentEnv[1][n] = parentEnv[2][n])
       => childEnv[1].env = childEnv[2].env
    /\ \A r \in 1..2, n \in EnvNames \ AllowList :
          childEnv[r].spawned => childEnv[r].env[n] = "undefined"

\* C11: a frame received from the admitted peer is handed to send() of the
\* peer's ProcessManager once, as it was received, whatever its content; a
\* frame that is not JSON, or has no id, or has no method, starts no span,
\* counts no request, creates no pending request, and counts no error but
\* send_failed when send() returns false.
C11_InboundForwardedVerbatim ==
    /\ [](\A c \in ConnIds, data \in InFrames, accepted \in BOOLEAN :
            (c = activeConnection /\ Receiving(c))
            => /\ Calls(incomingEffects(data, accepted), "pm.send")
                    = <<EPmSend(c, data)>>
               /\ (JSONParse(data).threw \/ ~JSONParse(data).hasId
                        \/ JSONParse(data).method = "")
                  => /\ Calls(incomingEffects(data, accepted), "span.start") = << >>
                     /\ Calls(incomingEffects(data, accepted), "ook.request.count") = << >>
                     /\ Calls(incomingEffects(data, accepted), "ook.error.count")
                          = IF sendReturns(c, accepted) THEN << >>
                            ELSE <<EMetric("ook.error.count", 1, "send_failed")>>)
    /\ [][\A c \in ConnIds, data \in InFrames :
            (/\ PeerMessage(c, data)
             /\ \/ JSONParse(data).threw \/ ~JSONParse(data).hasId
                \/ JSONParse(data).method = "")
            => pendingRequests' = pendingRequests /\ spans' = spans]_vars
\* A frame of the connected peer was handled: its request is pending, and
\* the peer's process runs and takes frames.
C11_Witness ==
    /\ activeConnection # 0 /\ Receiving(activeConnection)
    /\ CanSend(activeConnection)
    /\ Len(pendingRequests) = 1
    /\ pendingRequests[1].from = activeConnection
    /\ spans = <<"open">>

\* C12: a line that the ProcessManager of a peer emits is sent once, as it
\* is, to that peer if the peer's connection is open at that moment, and is
\* sent to nobody otherwise: it is dropped, not delivered to a later peer.
C12_OutboundForwardedOrDropped ==
    \A p \in PmIds, line \in OutLines :
        (Printing(p) /\ ~IsBlank(line))
        => Calls(outgoingEffects(p, line), "ws.send")
             = IF ws[p].readyState = "OPEN" THEN <<ESend(p, p, line)>> ELSE << >>

\* C13: handleIncomingMessage counts an error tagged send_failed only for a
\* frame that was not written to the child's stdin; a frame that was written
\* counts none.
C13_SendFailedOnlyWhenNotWritten ==
    \A c \in ConnIds, data \in InFrames, accepted \in BOOLEAN :
        Receiving(c)
        => (Calls(incomingEffects(data, accepted), "ook.error.count")
              = IF Calls(incomingEffects(data, accepted), "stdin.write") = << >>
                THEN <<EMetric("ook.error.count", 1, "send_failed")>>
                ELSE << >>)

\* C14: the error listener of a ProcessManager counts one error tagged
\* "process" and closes the active connection, if there is one, with code
\* 1011 and reason "Process error".  A spawn without pipes, or that fails, is
\* reported through that listener in the admission that spawned: the admitted
\* connection is closing with its listeners attached, and the server goes on
\* listening.
C14_ProcessErrorClosesPeer ==
    /\ [](/\ Calls(processErrorEffects(activeConnection), "ook.error.count")
               = <<EMetric("ook.error.count", 1, "process")>>
          /\ Calls(processErrorEffects(activeConnection), "ws.close")
               = IF activeConnection # 0
                 THEN <<EClose(activeConnection, 1011, "Process error")>> ELSE << >>
          /\ \A c \in ConnIds, outcome \in SpawnOutcomes \ {"ok"} :
                (wss = "listening" /\ ~Busy /\ ws[c].readyState = "NONE" /\ c = NextConn)
                => /\ Calls(connectionEffects(c, outcome), "ook.error.count")
                        = <<EMetric("ook.error.count", 1, "process")>>
                   /\ Calls(connectionEffects(c, outcome), "ws.close")
                        = <<EClose(c, 1011, "Process error")>>)
    /\ [][\A c \in ConnIds :
            (/\ activeConnection' = c /\ activeConnection # c
             /\ ~pm'[c].pipes \/ pm'[c].exitCode = "set")
            => /\ ws'[c] = [readyState |-> "CLOSING", handlers |-> TRUE,
                            closeSent |-> TRUE]
               /\ wss' = "listening"
               /\ gauge' = gauge + 1]_vars
\* The spawn for the first peer had no pipes and that peer was closed; the
\* server then admitted a second peer, whose process runs.
C14_Witness ==
    /\ pm[1].created /\ ~pm[1].pipes
    /\ ws[1].readyState = "CLOSED"
    /\ wss = "listening"
    /\ activeConnection = 2 /\ ws[2].readyState = "OPEN"
    /\ processManager = 2 /\ CanSend(2)

\* C15: stop() closes with code 1001 and reason "Server shutting down", then
\* kills the process, then closes the WebSocketServer, in that order; after
\* it every peer connection that was open is closing, and the peer handle and
\* the process handle are cleared; a stop() that finds no peer and no process
\* closes no peer and kills nothing.
C15_StopClosesPeerProcessListener ==
    /\ [](stopEffects
            = (IF activeConnection # 0
               THEN <<EClose(activeConnection, 1001, "Server shutting down")>>
               ELSE << >>)
              \o (IF processManager # 0 /\ pm[processManager].process # "null"
                  THEN <<ESignal(processManager, "SIGTERM"),
                         ETimeout(processManager, 5000)>>
                  ELSE << >>)
              \o (IF wss # "null" THEN <<EWssClose>> ELSE << >>))
    /\ [][stops' = stops + 1
            => /\ activeConnection' = 0 /\ processManager' = 0
               /\ wss' \in { "closing", "null" }
               /\ \A p \in PmIds : isRunning(p) => pm'[p].sigterm > 0
               /\ \A c \in ConnIds :
                     (Live(c) /\ ws[c].readyState = "OPEN")
                     => (ws'[c].readyState = "CLOSING" /\ ws'[c].closeSent)]_vars

\* C16: every close of a peer connection that the server makes carries the
\* code and reason of the condition its handler stands for: 1013 "Server busy
\* - single user mode" in a rejection, 1011 "Process error" in the error
\* listener, 1011 "Process exited" in the exit listener, 1001 "Server
\* shutting down" in stop(); the four pairs differ from each other, and no
\* other handler closes a peer connection.
C16_ClosurePairsDistinct ==
    LET Pairs(fx) == { <<Calls(fx, "ws.close")[k].n, Calls(fx, "ws.close")[k].s>> :
                         k \in 1..Len(Calls(fx, "ws.close")) }
        busy == <<1013, "Server busy - single user mode">>
        error == <<1011, "Process error">>
        exited == <<1011, "Process exited">>
        shutdown == <<1001, "Server shutting down">>
    IN  /\ Cardinality({ busy, error, exited, shutdown }) = 4
        /\ \A c \in ConnIds, outcome \in SpawnOutcomes :
              /\ Pairs(connectionEffects(c, outcome))
                   = IF Busy THEN { busy } ELSE IF outcome = "ok" THEN {} ELSE { error }
              /\ Pairs(processErrorEffects(c)) = { error }
        /\ Pairs(exitEffects) = IF Forwards THEN { exited } ELSE {}
        /\ Pairs(stopEffects) = IF activeConnection # 0 THEN { shutdown } ELSE {}
        /\ Pairs(closeEffects \o wsErrorEffects) = {}
        /\ \A data \in InFrames, accepted \in BOOLEAN :
              Pairs(incomingEffects(data, accepted)) = {}
        /\ \A p \in PmIds, line \in OutLines :
              Pairs(outgoingEffects(p, line) \o timerEffects(p)) = {}
\* The first peer was closed by the server after the second was rejected, and
\* neither close event has been emitted yet.
C16_Witness ==
    /\ ws[1] = [readyState |-> "CLOSING", handlers |-> TRUE, closeSent |-> TRUE]
    /\ ws[2] = [readyState |-> "CLOSING", handlers |-> FALSE, closeSent |-> TRUE]

\* C17: once the close event of a peer has been handled, no pending request
\* made from a frame of that peer is in the Map while a later peer's frames
\* can be tracked.
C17_DisconnectClearsCorrelations ==
    \A k \in 1..Len(pendingRequests) :
        ws[pendingRequests[k].from].readyState = "CLOSED"
        => ~\E d \in ConnIds : Receiving(d)

\* C18: send(message) of a ProcessManager whose child runs writes one line to
\* the child's stdin: the message with one newline appended if it ends with
\* none, the message itself if it ends with one or more; doing this to a line
\* again changes nothing.  With no running child it writes nothing and returns
\* false.
C18_SendAppendsOneNewline ==
    \A p \in PmIds, body \in InBodies \cup {""}, nl \in 0..2 :
        LET message == Frame(body, nl) IN
        /\ Line(message) = IF nl = 0 THEN Frame(body, 1) ELSE message
        /\ Line(Line(message)) = Line(message)
        /\ (isRunning(p) /\ pm[p].pipes)
               => sendEffects(p, message) = <<EWrite(p, Line(message))>>
        /\ ~isRunning(p)
               => /\ sendEffects(p, message) = << >>
                  /\ \A accepted \in BOOLEAN : ~sendReturns(p, accepted)
\* One ProcessManager has a running child that takes lines, another has a
\* child that failed to start or has exited.
C18_Witness ==
    \E p, q \in PmIds :
        /\ CanSend(p) /\ processManager = p
        /\ pm[q].created /\ ~isRunning(q)

\* C19: kill() sends SIGTERM at once and arms one timer of 5000 ms, and does
\* nothing else; when the timer fires, SIGKILL is sent if the child kill()
\* was called on is still the child and has not exited, and no SIGKILL is
\* sent if the exit of that child was observed before.
C19_SigkillOnlyWithoutObservedExit ==
    \A p \in PmIds :
        /\ killEffects(pm, p)
             = IF pm[p].process # "null"
               THEN <<ESignal(p, "SIGTERM"), ETimeout(p, 5000)>> ELSE << >>
        /\ pm[p].armed # << >>
             => /\ (Head(pm[p].armed) = pm[p].gen /\ pm[p].alive)
                     => timerEffects(p) = <<ESignal(p, "SIGKILL")>>
                /\ Head(pm[p].armed) \in pm[p].observed
                     => timerEffects(p) = << >>

\* C20: spawn() on a ProcessManager whose child is running changes nothing:
\* no child is started and the child, its reader and its timers are as they
\* were; a child is started only when isRunning is false, and then the child
\* before it has exited or never started, so that a ProcessManager never has
\* two live children.
C20_SpawnWhileRunningIsNoOp ==
    /\ [](\A p \in PmIds, outcome \in SpawnOutcomes :
            isRunning(p) => spawn(pm, p, outcome) = pm)
    /\ [][\A p \in PmIds :
            pm'[p].gen # pm[p].gen
            => /\ pm'[p].gen = pm[p].gen + 1
               /\ ~isRunning(p)
               /\ ~pm[p].alive
               /\ pm'[p].process = "child"]_vars
\* The ProcessManager runs its second child, which is alive, after the first
\* child exited.
C20_Witness ==
    /\ pm[TheController].gen = 2
    /\ pm[TheController].observed = {1}
    /\ isRunning(TheController) /\ pm[TheController].alive

\* C21: when the exit of a child is observed, by its own doing or after
\* kill(), the exit listener closes the reader, once, and then emits exit,
\* once, and makes no other call; after it the ProcessManager is not running,
\* has no child and no reader, and the exit of that child is not observed a
\* second time; the Session's exit listener has run in that step.
C21_ObservedExitReleasesOnce ==
    /\ [](\A p \in PmIds :
            (pm[p].alive /\ pm[p].pipes)
            => /\ pm[p].stdoutReader
               /\ childExitEffects(p) = <<EReaderClose(p), EEmit(p, "exit")>>)
    /\ [][\A p \in PmIds, bySignal \in BOOLEAN :
            (ChildExit(p, bySignal) /\ pm[p].pipes)
            => /\ ~running(pm', p)
               /\ pm'[p].process = "null"
               /\ ~pm'[p].stdoutReader
               /\ ~pm'[p].alive
               /\ pm[p].gen \notin pm[p].observed
               /\ pm'[p].observed = pm[p].observed \cup {pm[p].gen}
               /\ pendingRequests' = << >>]_vars
\* The exits of two children of one ProcessManager were observed, the first
\* after kill() and the second without: it is idle and has no reader.
C21_Witness ==
    /\ pm[TheController].observed = {1, 2}
    /\ pm[TheController].sigterm = 1 /\ pm[TheController].armed = <<1>>
    /\ ~isRunning(TheController)
    /\ ~pm[TheController].stdoutReader

\* C22: the sum of ook.connection.active is 0 or 1, and is the number of
\* admitted connections whose close event has not been handled.
C22_GaugeIsZeroOrOne ==
    /\ gauge \in { 0, 1 }
    /\ gauge = Cardinality({ c \in ConnIds : Live(c) })

\* C23: when a connection is admitted while the child of an earlier
\* connection is alive, the process handle becomes (or stays) the
\* ProcessManager of that child: no ProcessManager is constructed, no child is
\* spawned and none is signalled.
C23_ReconnectReattaches ==
    [][\A c \in ConnIds :
         (/\ activeConnection' = c /\ activeConnection # c
          /\ \E p \in PmIds : pm[p].created /\ pm[p].alive)
         => /\ processManager' # 0
            /\ pm[processManager'].created /\ pm[processManager'].alive
            /\ pm' = pm]_vars

\* C24: the close event of an admitted connection that is not the peer handle
\* leaves the peer handle, the process handle, the authenticated flag and
\* every process as they are; and an admitted connection that is open is the
\* peer handle and has its ProcessManager as the process handle.
C24_StaleCloseLeavesSession ==
    /\ [](\A c \in ConnIds :
            (Live(c) /\ ws[c].readyState = "OPEN")
            => activeConnection = c /\ processManager = c)
    /\ [][\A c \in ConnIds :
            (CloseEvent(c) /\ ws[c].handlers /\ activeConnection # c
                /\ activeConnection # 0)
            => /\ activeConnection' = activeConnection
               /\ processManager' = processManager
               /\ sessionAuthenticated' = sessionAuthenticated
               /\ pm' = pm]_vars

\* C25: the exit of a child whose ProcessManager is not the process handle,
\* while another is, closes no connection but its own and leaves the pending
\* requests made from frames of other connections, and their spans, as they
\* are.
C25_StaleExitLeavesSession ==
    [][\A p \in PmIds, bySignal \in BOOLEAN :
         (ChildExit(p, bySignal) /\ Listening(p)
             /\ processManager # 0 /\ processManager # p)
         => /\ \A c \in ConnIds \ {p} : ws'[c] = ws[c]
            /\ \A k \in 1..Len(pendingRequests) :
                  pendingRequests[k].from # p
                  => /\ MapGet(pendingRequests', pendingRequests[k].id) = pendingRequests[k]
                     /\ spans'[pendingRequests[k].span] = spans[pendingRequests[k].span]]_vars

\* C26: a span that was started and not ended is the span of a pending
\* request, so that the line that resolves the request, or the exit of the
\* process, ends it; and a span that was ended is not ended again.
C26_EverySpanEndedOnce ==
    /\ [](\A k \in 1..Len(spans) :
            spans[k] = "open"
            => \E j \in 1..Len(pendingRequests) : pendingRequests[j].span = k)
    /\ [][\A k \in 1..Len(spans) : spans[k] # "open" => spans'[k] = spans[k]]_vars

\* C27: a line of a child that carries a method field, being a request or a
\* notification of the child, records no latency sample, ends no span, removes
\* no pending request and leaves the authenticated flag as it is, whatever
\* its id.
C27_OnlyResponsesResolve ==
    /\ [](\A p \in PmIds, line \in OutLines :
            (Printing(p) /\ JSONParse(line).method # "")
            => /\ Calls(outgoingEffects(p, line), "ook.request.latency") = << >>
               /\ Calls(outgoingEffects(p, line), "span.end") = << >>)
    /\ [][\A p \in PmIds, line \in OutLines :
            (ChildLine(p, line) /\ JSONParse(line).method # "")
            => /\ pendingRequests' = pendingRequests
               /\ sessionAuthenticated' = sessionAuthenticated
               /\ spans' = spans]_vars

\* C28: a kill timer sends SIGKILL to no child but the one kill() was called
\* on: when the timer that fires next was armed for a child that is not the
\* child of the ProcessManager any more, its callback sends nothing.
C28_TimerTargetsKilledChild ==
    \A p \in PmIds :
        (pm[p].armed # << >> /\ Head(pm[p].armed) # pm[p].gen)
        => timerEffects(p) = << >>

\* C29: a ProcessManager whose last spawn() found no pipes is idle: it is
\* not running, this.process is null, and spawn() on it starts a child.
C29_PipeFailureLeavesIdle ==
    \A p \in PmIds :
        (pm[p].gen > 0 /\ ~pm[p].pipes)
        => /\ ~isRunning(p)
           /\ pm[p].process = "null"
           /\ \A outcome \in SpawnOutcomes : spawn(pm, p, outcome) # pm

====
